---- MODULE Spec2Model ----
(***************************************************************************)
(* Session lifecycle and tool dispatch of the Stagehand MCP server         *)
(* (src/src/utils.ts).  One action per stretch of handler code between two *)
(* await points: JavaScript runs each such stretch to completion.          *)
(***************************************************************************)
EXTENDS Naturals, Integers, Sequences, FiniteSets, TLC

\* ---------------------------------------------------------------- bounds
\* Number of Stagehand instances that may be constructed in one behaviour.
MaxSessions == 2
\* Number of CallTool handler executions that exist side by side.
NumHandlers == 2
\* Number of instances that may be constructed when requests overlap.
MaxOverlapSessions == 3
\* Number of requests a client sends without waiting for the responses.
MaxOverlapRequests == 2
\* Number of ListTools entries the log may hold at once.
MaxListings == 1

Handlers == 1..NumHandlers
Sessions == 1..(IF MaxSessions > MaxOverlapSessions THEN MaxSessions
                ELSE MaxOverlapSessions)
\* The empty slot: `let stagehand: Stagehand | undefined`.
Undefined == 0

VARIABLES
  stagehand,            \* the global session slot (0 = undefined)
  operationLogs,        \* the global operation log
  sess,                 \* the Stagehand instances constructed so far
  created,              \* how many instances have been constructed
  pc,                   \* per handler: the await it is suspended at
  req,                  \* per handler: request.params (name, arguments)
  needsInitialization,  \* per handler: the local of ensureStagehand
  pending,              \* per handler: the instance whose promise is awaited
  settled,              \* per handler: how ensureStagehand's promise settled
  result,               \* per handler: the CallToolResult of handleToolCall
  call,                 \* per handler: what this execution has done so far
  delivered,            \* how many requests a client that does not wait
                        \* for responses has sent
  listed,               \* the tool names of the last ListTools response
  applied               \* a function of the module applied on its own:
                        \* its arguments and, step by step, what it returns

\* The state of the server.
server == <<stagehand, operationLogs, sess, created, pc, req,
            needsInitialization, pending, settled, result, call, delivered,
            listed>>

vars == <<server, applied>>

\* ------------------------------------------------------------ JS values
JsUndefined == [k |-> "undefined"]
JsNull == [k |-> "null"]
JsString(s) == [k |-> "string", v |-> s]
JsObject(f) == [k |-> "object", f |-> f]
JsNumber(n) == [k |-> "number", v |-> n]
\* The number n + 0.5.
JsHalf(n) == [k |-> "number", v |-> n, half |-> TRUE]

\* JavaScript's typeof.
TypeOf(x) == IF x.k \in {"null", "array", "object"} THEN "object" ELSE x.k

\* JavaScript's !x.
Falsy(x) ==
  \/ x.k \in {"undefined", "null"}
  \/ x.k = "boolean" /\ x.v = FALSE
  \/ x.k = "number" /\ x.v = 0 /\ "half" \notin DOMAIN x
  \/ x.k = "string" /\ x.v = ""

HasKey(x, key) == x.k = "object" /\ key \in DOMAIN x.f
Get(x, key) == IF HasKey(x, key) THEN x.f[key] ELSE JsUndefined

\* ----------------------------------------------------------- tool names
TOOLS ==
  <<"stagehand_navigate", "stagehand_screenshot", "stagehand_act",
    "stagehand_extract", "stagehand_observe">>

ToolNames == {TOOLS[i] : i \in DOMAIN TOOLS}
UnknownName == "unknown_tool_xyz"
\* Names no case of the switch compares equal to: another case, no name.
OtherNames == {UnknownName, "STAGEHAND_NAVIGATE", ""}
Names == ToolNames \cup OtherNames

\* -------------------------------------------------------- jsonSchemaToZod
JsArray(e) == [k |-> "array", e |-> e]
JsBool(b) == [k |-> "boolean", v |-> b]

\* Number.isInteger.
IsInteger(x) == "half" \notin DOMAIN x

\* x >= m and x <= m for a JavaScript number x and an integer m.
AtLeast(x, m) == x.v >= m
AtMost(x, m) == IF IsInteger(x) THEN x.v <= m ELSE x.v < m

\* The outcome of a call that threw.
Thrown(msg) == [z |-> "throw", msg |-> msg]

\* The zod validators convertSchema builds.  A bound that was not given is
\* JsUndefined.
ZNullForAny == [z |-> "null"]
ZAny == [z |-> "any"]
ZString(pattern, min, max) ==
  [z |-> "string", pattern |-> pattern, min |-> min, max |-> max]
ZNumberWithoutInt(int, min, max) ==
  [z |-> "number", int |-> FALSE, min |-> min, max |-> max]
ZNumber(int, min, max) == [z |-> "number", int |-> int, min |-> min, max |-> max]
ZBoolean == [z |-> "boolean"]
ZNull == [z |-> "null"]
ZArray(item, min, max) == [z |-> "array", item |-> item, min |-> min, max |-> max]
ZObject(shape) == [z |-> "object", shape |-> shape]

\* The strings the model validates.
Strings == {"", "text", "7"}

\* new RegExp(pattern): the strings of the model each pattern matches; a
\* pattern outside the table is not a regular expression (SyntaxError).
RegExp == [pattern \in {"^t", "^[0-9]+$"} |->
             IF pattern = "^t" THEN {"text"} ELSE {"7"}]

\* optional that still requires the key.
optionalIgnored(validator) == validator

\* validator.optional().
optional(validator) == [z |-> "optional", inner |-> validator]

\* partial that leaves the shape as it is.
partialIgnored(objectSchema) == objectSchema

\* objectSchema.partial(): every key of the shape becomes optional.
partial(objectSchema) ==
  ZObject([key \in DOMAIN objectSchema.shape |->
             [z |-> "optional", inner |-> objectSchema.shape[key]]])

\* The keys `for (const key in properties)` visits, with their values: the
\* members of an object, the indices of an array, none for a number or a
\* boolean.
Entries(properties) ==
  CASE properties.k = "object" -> properties.f
    [] properties.k = "array" ->
         [key \in {ToString(i - 1) : i \in DOMAIN properties.e} |->
            properties.e[CHOOSE i \in DOMAIN properties.e : ToString(i - 1) = key]]
    [] OTHER -> [key \in {} |-> JsUndefined]

\* requiredKeys.has(key) for `new Set(schema.required)`.
Has(required, key) == \E i \in DOMAIN required.e : required.e[i] = JsString(key)

\* convertSchema(schema): the validator, or what it throws.  Reading
\* schema.type of null or undefined is a TypeError.
RECURSIVE convertSchema(_)
convertSchema(schema) ==
  IF schema.k \in {"undefined", "null"} THEN Thrown("TypeError")
  ELSE
    LET type == Get(schema, "type")
    IN CASE type = JsString("string") ->
              LET pattern == Get(schema, "pattern")
              IN IF ~Falsy(pattern) /\ pattern.v \notin DOMAIN RegExp THEN
                   Thrown("SyntaxError")
                 ELSE ZString(IF Falsy(pattern) THEN JsUndefined ELSE pattern,
                              Get(schema, "minLength"), Get(schema, "maxLength"))
         [] type \in {JsString("number"), JsString("integer")} ->
              ZNumber(type = JsString("integer"),
                      Get(schema, "minimum"), Get(schema, "maximum"))
         [] type = JsString("boolean") -> ZBoolean
         [] type = JsString("null") -> ZNull
         [] type = JsString("array") ->
              IF Falsy(Get(schema, "items")) THEN
                ZArray(ZAny, JsUndefined, JsUndefined)
              ELSE
                LET itemSchema == convertSchema(Get(schema, "items"))
                IN IF itemSchema.z = "throw" THEN itemSchema
                   ELSE ZArray(itemSchema, Get(schema, "minItems"),
                               Get(schema, "maxItems"))
         [] type = JsString("object") ->
              LET properties == Get(schema, "properties")
                  entries == IF Falsy(properties) THEN [key \in {} |-> JsUndefined]
                             ELSE Entries(properties)
                  propertySchemas ==
                    [key \in DOMAIN entries |-> convertSchema(entries[key])]
                  failed == {key \in DOMAIN entries :
                               propertySchemas[key].z = "throw"}
                  required == Get(schema, "required")
              IN IF failed # {} THEN
                   propertySchemas[CHOOSE key \in failed : TRUE]
                 ELSE IF required.k = "array" /\ Len(required.e) > 0 THEN
                   ZObject([key \in DOMAIN propertySchemas |->
                              IF Has(required, key) THEN propertySchemas[key]
                              ELSE optional(propertySchemas[key])])
                 ELSE partial(ZObject(propertySchemas))
         [] OTHER -> ZAny

\* jsonSchemaToZod without the test of its argument.
jsonSchemaToZodUnchecked(schema) == convertSchema(schema)

\* jsonSchemaToZod(schema): the validator, or what it throws.
jsonSchemaToZod(schema) ==
  IF Falsy(schema) \/ TypeOf(schema) # "object" THEN Thrown("Invalid schema")
  ELSE convertSchema(schema)

\* Whether the length `n` passes .min(min) and .max(max), a bound that was
\* not given being JsUndefined.
Within(n, min, max) ==
  /\ min.k = "number" => n >= min.v
  /\ max.k = "number" => n <= max.v

\* validator.safeParse(x).success.
RECURSIVE Accepts(_, _)
Accepts(validator, x) ==
  CASE validator.z = "any" -> TRUE
    [] validator.z = "optional" ->
         x.k = "undefined" \/ Accepts(validator.inner, x)
    [] validator.z = "string" ->
         /\ x.k = "string"
         /\ validator.pattern.k = "string" => x.v \in RegExp[validator.pattern.v]
         /\ Within(Len(x.v), validator.min, validator.max)
    [] validator.z = "number" ->
         /\ x.k = "number"
         /\ validator.int => IsInteger(x)
         /\ validator.min.k = "number" => AtLeast(x, validator.min.v)
         /\ validator.max.k = "number" => AtMost(x, validator.max.v)
    [] validator.z = "boolean" -> x.k = "boolean"
    [] validator.z = "null" -> x.k = "null"
    [] validator.z = "array" ->
         /\ x.k = "array"
         /\ \A i \in DOMAIN x.e : Accepts(validator.item, x.e[i])
         /\ Within(Len(x.e), validator.min, validator.max)
    [] OTHER ->
         /\ x.k = "object"
         /\ \A key \in DOMAIN validator.shape :
              Accepts(validator.shape[key], Get(x, key))

\* ------------------------------------------------------------ arguments
TitleSchema ==
  JsObject([type |-> JsString("object"),
            properties |-> JsObject([title |-> JsObject([type |-> JsString("string")])]),
            required |-> JsArray(<<JsString("title")>>)])

NullPropertySchema ==
  JsObject([type |-> JsString("object"),
            properties |-> JsObject([title |-> JsNull])])

NoArgs ==
  [schema |-> JsUndefined, selector |-> JsUndefined,
   fullPage |-> JsUndefined, name |-> JsUndefined]

\* The arguments a caller may send with each tool name.
ArgsFor(name) ==
  IF name = "stagehand_extract" THEN
    {[NoArgs EXCEPT !.schema = s] :
       s \in {JsUndefined, JsNull, JsString("title"), TitleSchema,
               NullPropertySchema}}
  ELSE IF name = "stagehand_screenshot" THEN
    {[NoArgs EXCEPT !.name = n, !.selector = sel, !.fullPage = fp] :
       n \in {JsString("My Screenshot!")},
       sel \in {JsUndefined, JsString("#searchButton")},
       fp \in {JsUndefined, JsBool(TRUE), JsBool(FALSE)}}
    \cup {NoArgs}
  ELSE {NoArgs}

\* -------------------------------------------------------------- results
Text(head, body) == [type |-> "text", head |-> head, body |-> body]

\* `Operation logs:\n${operationLogs.join("\n")}` over the log `logs`.
LogsText(logs) == Text("Operation logs:", logs)

NoResult == [isError |-> FALSE, content |-> <<>>]

ErrorResult(head, errorMsg, logs) ==
  [isError |-> TRUE, content |-> <<Text(head, <<errorMsg>>), LogsText(logs)>>]

\* ------------------------------------------------------------- sessions
Unborn == [init |-> "unborn", page |-> "absent", closeCalled |-> FALSE,
           closed |-> FALSE, used |-> FALSE, failed |-> FALSE]

\* What reading stagehand.page gives before init() has set the handle:
\* undefined, or a getter that throws (the version of the library decides,
\* the same way for every instance).
PageBeforeInit == {"absent", "throws"}

\* The first call of an execution has done nothing yet.
\*   slot0        the instance in the slot when the request arrived
\*   force        the argument ensureStagehand was called with
\*   probed       the instance whose page.evaluate resolved
\*   probeFailed  how the probe failed: "reject", "absent", "throws" ("" = not)
\*   closedOn     the instance close() was called on
\*   closeFailed  how close() failed: "reject", "throw" ("" = not)
\*   ctors, inits how often `new Stagehand` and init() were evaluated
\*   built        the instance constructed
\*   init         how init() settled: "ok", "failed" ("" = not yet)
\*   ops          the capabilities invoked by the switch, in order
\*   threw        the capability whose call failed ("" = none)
\*   data         the value stagehand.extract resolved to
\*   observations the value stagehand.observe resolved to
\*   element      what page.$ resolved to: "element", "null" ("" = not yet)
\*   stale        how many entries older than the request the log holds
\*   clears       how often the log was cleared
\*   early        the request arrived while another awaited its response
\*   responded    the handler has returned the response
NoData == [k |-> "none"]

NoCall ==
  [slot0 |-> Undefined, force |-> FALSE, probed |-> Undefined,
   probeFailed |-> "", closedOn |-> Undefined, closeFailed |-> "",
   ctors |-> 0, built |-> Undefined, inits |-> 0, init |-> "",
   ops |-> <<>>, threw |-> "", data |-> NoData, observations |-> NoData,
   element |-> "",
   stale |-> 0, clears |-> 0,
   early |-> FALSE, responded |-> FALSE]

NotSettled == [ok |-> FALSE, val |-> Undefined, msg |-> ""]
NoRequest == [name |-> "", args |-> NoArgs]

\* No function is being applied on its own.
NotApplied == [step |-> "none"]

\* The server once the module is loaded and runServer has connected.
Started ==
  /\ stagehand = Undefined
  /\ operationLogs = <<"Starting Stagehand MCP server...", "Server started successfully">>
  /\ \E page \in PageBeforeInit :
       sess = [s \in Sessions |-> [Unborn EXCEPT !.page = page]]
  /\ created = 0
  /\ pc = [p \in Handlers |-> "idle"]
  /\ req = [p \in Handlers |-> NoRequest]
  /\ needsInitialization = [p \in Handlers |-> FALSE]
  /\ pending = [p \in Handlers |-> Undefined]
  /\ settled = [p \in Handlers |-> NotSettled]
  /\ result = [p \in Handlers |-> NoResult]
  /\ call = [p \in Handlers |-> NoCall]
  /\ delivered = 0
  /\ listed = <<>>

Init == Started /\ applied = NotApplied

\* ---------------------------------------------------- execution context
\* The values one handler reads and writes while it runs to its next await.
Ctx(p) ==
  [slot |-> stagehand, logs |-> operationLogs, sess |-> sess,
   created |-> created, pc |-> pc[p], needs |-> needsInitialization[p],
   pending |-> pending[p], settled |-> settled[p], result |-> result[p],
   call |-> call[p]]

\* The handler suspends (or ends): its context becomes the next state.
Commit(p, c) ==
  /\ stagehand' = c.slot
  /\ operationLogs' = c.logs
  /\ sess' = c.sess
  /\ created' = c.created
  /\ pc' = [pc EXCEPT ![p] = c.pc]
  /\ needsInitialization' = [needsInitialization EXCEPT ![p] = c.needs]
  /\ pending' = [pending EXCEPT ![p] = c.pending]
  /\ settled' = [settled EXCEPT ![p] = c.settled]
  /\ result' = [result EXCEPT ![p] = c.result]
  /\ call' = [call EXCEPT ![p] = c.call]
  /\ listed' = listed

\* log(message): push onto operationLogs (the timestamp prefix is left out).
log(c, message) == [c EXCEPT !.logs = Append(@, message)]

\* ------------------------------------------------------ ensureStagehand
Resolved(session) == [ok |-> TRUE, val |-> session, msg |-> ""]
Rejected(errorMsg) == [ok |-> FALSE, val |-> Undefined, msg |-> errorMsg]

\* `new Stagehand({...})`, the assignment to the slot and the call of init().
\* e.ctor: whether the constructor returns or throws.  The page handle of
\* the new instance is what the library gives before init().
construct(c, e) ==
  LET c1 == [log(c, "Initializing new Stagehand instance...")
               EXCEPT !.call.ctors = @ + 1]
  IN IF e.ctor = "throw" THEN
       [c1 EXCEPT !.pc = "settled", !.settled = Rejected("constructor failed"),
                  !.call.threw = "constructor"]
     ELSE
       LET id == c.created + 1
           c2 == [c1 EXCEPT !.slot = id, !.created = id,
                            !.sess[id] = [c1.sess[id] EXCEPT !.init = "pending"],
                            !.call.built = id]
           c3 == log(c2, "Running init()")
       IN [c3 EXCEPT !.pc = "init", !.pending = id, !.call.inits = @ + 1]

\* The synchronous catch of the close block, then `stagehand = undefined`.
closeThrew(c) ==
  [log(c, "Error during cleanup: ") EXCEPT !.slot = Undefined,
                                          !.call.closeFailed = "throw"]

\* recreate with the close block left out.
recreateWithoutClose(c, e) ==
  construct([c EXCEPT !.slot = Undefined], e)

\* `if (needsInitialization) { if (stagehand) { ... close() ...`.
\* e.close: close() throws at once, or returns a promise.
recreate(c, e) ==
  IF c.slot # Undefined THEN
    LET c1 == [log(c, "Closing previous Stagehand instance...")
                 EXCEPT !.sess[c.slot].closeCalled = TRUE,
                        !.call.closedOn = c.slot]
    IN IF e.close = "throw" THEN construct(closeThrew(c1), e)
       ELSE [c1 EXCEPT !.pc = "close", !.pending = c.slot]
  ELSE construct(c, e)

\* initializeIfNeeded with the needsInitialization test dropped.
initializeAlways(c, e) == recreate(c, e)

\* `if (needsInitialization) {...} else {...}  return stagehand`.
initializeIfNeeded(c, e) ==
  IF c.needs THEN recreate(c, e)
  ELSE [log(c, "Using existing active Stagehand instance")
          EXCEPT !.pc = "settled", !.settled = Resolved(c.slot)]

\* probeFailed with the assignment to needsInitialization dropped.
probeFailedIgnored(c, message, how) ==
  [log(c, message) EXCEPT !.call.probeFailed = how]

\* The probe found no usable page handle: `needsInitialization = true`.
probeFailed(c, message, how) ==
  [log(c, message) EXCEPT !.needs = TRUE, !.call.probeFailed = how]

\* shouldProbe with the force flag dropped from the condition.
shouldProbeIgnoringForce(c, forceReinitialization) ==
  c.slot # Undefined

\* `if (stagehand && !forceReinitialization)`.
shouldProbe(c, forceReinitialization) ==
  c.slot # Undefined /\ ~forceReinitialization

\* ensureStagehand from its first line to its first await.
ensureStagehand(c, forceReinitialization, e) ==
  LET c0 == log(c, "Ensuring Stagehand is initialized...")
      c1 == [c0 EXCEPT !.needs = (c0.slot = Undefined),
                       !.call.force = forceReinitialization]
  IN IF shouldProbe(c1, forceReinitialization) THEN
       LET page == c1.sess[c1.slot].page
       IN CASE page = "present" ->
                 [log(c1, "Testing if browser session is still active...")
                    EXCEPT !.pc = "probe", !.pending = c1.slot]
            [] page = "absent" ->
                 initializeIfNeeded(
                   probeFailed(c1, "No active page found, will reinitialize",
                               "absent"), e)
            [] page = "throws" ->
                 initializeIfNeeded(
                   probeFailed(c1, "Error checking browser session: , will reinitialize",
                               "throws"), e)
     ELSE IF forceReinitialization THEN
       initializeIfNeeded(
         [log(c1, "Forced reinitialization requested") EXCEPT !.needs = TRUE], e)
     ELSE initializeIfNeeded(c1, e)

\* afterProbe with the .catch callback of page.evaluate left empty.
afterProbeIgnoringOutcome(c, outcome, e) ==
  initializeIfNeeded(c, e)

\* The rest of ensureStagehand once page.evaluate has settled.
afterProbe(c, outcome, e) ==
  IF outcome = "reject" THEN
    initializeIfNeeded(
      probeFailed(c, "Browser session is closed, will reinitialize", "reject"), e)
  ELSE initializeIfNeeded([c EXCEPT !.call.probed = c.pending], e)

\* The .catch callback of close().
closeRejected(c) ==
  [log(c, "Error closing previous instance: ") EXCEPT !.call.closeFailed = "reject"]

\* afterClose with `stagehand = undefined` left out.
afterCloseKeepingSlot(c, outcome, e) ==
  construct(IF outcome = "reject" THEN closeRejected(c)
            ELSE [c EXCEPT !.sess[c.pending].closed = TRUE], e)

\* afterClose with the rejection of close() rethrown instead of swallowed.
afterCloseEscalating(c, outcome, e) ==
  IF outcome = "reject" THEN
    [c EXCEPT !.call.closeFailed = "reject", !.pc = "settled",
              !.settled = Rejected("close failed")]
  ELSE construct([c EXCEPT !.sess[c.pending].closed = TRUE,
                           !.slot = Undefined], e)

\* The rest of ensureStagehand once close() has settled.
afterClose(c, outcome, e) ==
  LET c1 == IF outcome = "reject" THEN closeRejected(c)
            ELSE [c EXCEPT !.sess[c.pending].closed = TRUE]
  IN construct([c1 EXCEPT !.slot = Undefined], e)

\* The rest of ensureStagehand once init() has settled.  e.partial: whether
\* a failing init() had already set the page handle.
afterInit(c, outcome, e) ==
  IF outcome = "ok" THEN
    LET c1 == [c EXCEPT !.sess[c.pending].init = "ok",
                        !.sess[c.pending].page = "present",
                        !.call.init = "ok"]
        c2 == log(c1, "Stagehand initialized successfully")
    IN [c2 EXCEPT !.pc = "settled", !.settled = Resolved(c2.slot)]
  ELSE
    [c EXCEPT !.sess[c.pending].init = "failed",
              !.sess[c.pending].page = IF e.partial THEN "present" ELSE @,
              !.call.init = "failed", !.call.threw = "init",
              !.pc = "settled", !.settled = Rejected("init failed")]

\* What page.evaluate can do on an instance: a closed browser never answers.
ProbeOutcomes(session) ==
  IF sess[session].closed THEN {"reject"} ELSE {"ok", "reject"}

\* The outcomes the environment picks while a handler runs.
Env ==
  [ctor : {"ok", "throw"}, close : {"throw", "promise"}, partial : BOOLEAN]

\* The outcomes that matter once close() has been called, and once init()
\* has been called.
EnvAfterClose == {e \in Env : e.close = "promise" /\ ~e.partial}
EnvAfterInit == {e \in Env : e.close = "promise" /\ e.ctor = "ok"}

\* ------------------------------------------------------- handleToolCall
\* failure with the log read before the failure entry is pushed.
failureStaleSnapshot(c, logHead, textHead, errorMsg) ==
  [log(c, logHead) EXCEPT !.pc = "handled",
                          !.result = ErrorResult(textHead, errorMsg, c.logs)]

\* failure without the entry in the log.
failureUnlogged(c, logHead, textHead, errorMsg) ==
  [c EXCEPT !.pc = "handled",
            !.result = ErrorResult(textHead, errorMsg, c.logs)]

\* The instance a failing return leaves behind: the one ensureStagehand gave,
\* remembered as having had a failure.
failedOn(c) ==
  IF c.settled.ok /\ c.slot # Undefined
  THEN [c EXCEPT !.sess[c.slot].failed = TRUE]
  ELSE c

\* failure with the slot emptied on the way out.
failureDroppingSession(c, logHead, textHead, errorMsg) ==
  LET c1 == failedOn(log(c, logHead))
  IN [c1 EXCEPT !.pc = "handled", !.slot = Undefined,
                !.result = ErrorResult(textHead, errorMsg, c1.logs)]

\* failure with the log emptied once it has been put in the result.
failureDrainingLog(c, logHead, textHead, errorMsg) ==
  LET c1 == failedOn(log(c, logHead))
  IN [c1 EXCEPT !.pc = "handled", !.logs = <<>>,
                !.result = ErrorResult(textHead, errorMsg, c1.logs)]

\* A catch block of handleToolCall: log the failure, return the error result
\* with the log as it is after that entry.
failure(c, logHead, textHead, errorMsg) ==
  LET c1 == failedOn(log(c, logHead))
  IN [c1 EXCEPT !.pc = "handled",
                !.result = ErrorResult(textHead, errorMsg, c1.logs)]

\* success with the flag set.
successFlagged(c, content) ==
  [c EXCEPT !.pc = "handled",
            !.result = [isError |-> TRUE, content |-> content]]

\* A return with isError false.
success(c, content) ==
  [c EXCEPT !.pc = "handled",
            !.result = [isError |-> FALSE, content |-> content]]

\* invoke with the capability called a second time.
invokeTwice(c, capability, awaiting) ==
  [c EXCEPT !.pc = awaiting, !.pending = c.slot,
            !.sess[c.slot].used = TRUE,
            !.call.ops = @ \o <<capability, capability>>]

\* Call a capability of the instance in the slot and await it.
invoke(c, capability, awaiting) ==
  [c EXCEPT !.pc = awaiting, !.pending = c.slot,
            !.sess[c.slot].used = TRUE,
            !.call.ops = Append(@, capability)]

\* Call a capability of something an earlier call on `session` returned (the
\* element handle of page.$) and await it: the slot is not read.
invokeOnHandle(c, session, capability, awaiting) ==
  [c EXCEPT !.pc = awaiting, !.pending = session,
            !.sess[session].used = TRUE,
            !.call.ops = Append(@, capability)]

\* The same through stagehand.page, which must be readable first.
invokeOnPage(c, capability, awaiting, logHead, textHead) ==
  IF c.sess[c.slot].page = "present" THEN invoke(c, capability, awaiting)
  ELSE failure(c, logHead, textHead, "TypeError")

\* initFailure with the catch falling through as a plain result.
initFailureNotFlagged(c, errorMsg) ==
  LET c1 == log(c, "Failed to initialize Stagehand: ")
  IN [c1 EXCEPT !.pc = "handled",
                !.result = [isError |-> FALSE,
                            content |-> <<Text("Failed to initialize Stagehand: ",
                                               <<errorMsg>>),
                                          LogsText(c1.logs)>>]]

\* The catch after `stagehand = await ensureStagehand(...)`.
initFailure(c, errorMsg) ==
  failure(c, "Failed to initialize Stagehand: ",
          "Failed to initialize Stagehand: ", errorMsg)

\* case "stagehand_screenshot", to its first await.
screenshot(c, args) ==
  LET c1 == log(c, "Taking screenshot with name: ")
  IN IF args.name.k # "string" THEN
       failure(c1, "Screenshot failed: ", "Failed to take screenshot: ", "TypeError")
     ELSE IF ~Falsy(args.selector) THEN
       invokeOnPage(log(c1, "Taking screenshot of element: "), "$", "query",
                    "Screenshot failed: ", "Failed to take screenshot: ")
     ELSE
       LET fullPage == args.fullPage # JsBool(FALSE)
           c2 == log(c1, IF fullPage THEN "Taking full page screenshot"
                         ELSE "Taking viewport screenshot")
       IN invokeOnPage(c2, IF fullPage THEN "page.screenshot(fullPage)"
                           ELSE "page.screenshot(viewport)", "op",
                       "Screenshot failed: ", "Failed to take screenshot: ")

\* case "stagehand_extract", to its first await.
extract(c, args) ==
  LET c1 == log(log(c, "Extracting data with instruction: "), "Schema: ")
      zodSchema == jsonSchemaToZod(args.schema)
  IN IF zodSchema.z = "throw" THEN
       failure(c1, "Extraction failed: ", "Failed to extract: ", zodSchema.msg)
     ELSE invoke(c1, "extract", "op")

\* unknownTool with the name accepted as if an operation had run.
unknownToolAccepted(c, name) ==
  success(log(c, "Unknown tool called: "), <<Text("Unknown tool: ", <<name>>)>>)

\* The default case of the switch.
unknownTool(c, name) ==
  failure(c, "Unknown tool called: ", "Unknown tool: ", name)

\* dispatch with the observe case missing from the switch.
dispatchWithoutObserve(c, name, args) ==
  CASE name = "stagehand_navigate" ->
         invokeOnPage(log(c, "Navigating to URL: "), "goto", "op",
                      "Navigation failed: ", "Failed to navigate: ")
    [] name = "stagehand_act" ->
         invoke(log(c, "Performing action: "), "act", "op")
    [] name = "stagehand_extract" -> extract(c, args)
    [] name = "stagehand_screenshot" -> screenshot(c, args)
    [] OTHER -> unknownTool(c, name)

\* `switch (name)`, each case to its first await.
dispatch(c, name, args) ==
  CASE name = "stagehand_navigate" ->
         invokeOnPage(log(c, "Navigating to URL: "), "goto", "op",
                      "Navigation failed: ", "Failed to navigate: ")
    [] name = "stagehand_act" ->
         invoke(log(c, "Performing action: "), "act", "op")
    [] name = "stagehand_extract" -> extract(c, args)
    [] name = "stagehand_observe" ->
         invoke(log(c, "Starting observation with instruction: "), "observe", "op")
    [] name = "stagehand_screenshot" -> screenshot(c, args)
    [] OTHER -> unknownTool(c, name)

\* handleToolCall once ensureStagehand's promise has settled.
afterEnsure(c, name, args) ==
  IF c.settled.ok THEN
    LET c1 == [c EXCEPT !.slot = c.settled.val]
    IN IF c1.slot = Undefined THEN initFailure(c1, "Failed to initialize Stagehand")
       ELSE dispatch(c1, name, args)
  ELSE initFailure(c, c.settled.msg)

\* handleToolCall never asking for a forced reinitialisation.
handleToolCallNeverForcing(c, name, e) ==
  ensureStagehand(log(c, "Handling tool call: "), FALSE, e)

\* handleToolCall from its first line to the first await.
handleToolCall(c, name, e) ==
  ensureStagehand(log(c, "Handling tool call: "), name = "stagehand_navigate", e)

\* The awaited capability call rejected.
threw(c) == [c EXCEPT !.call.threw = c.call.ops[Len(c.call.ops)]]

\* JSON.stringify(x) as a template literal prints it: members whose value is
\* undefined are left out, undefined elements of an array print as null.
RECURSIVE Stringify(_), Members(_, _), Elements(_)
Members(f, keys) ==
  IF keys = {} THEN ""
  ELSE LET key == CHOOSE k \in keys : TRUE
           rest == Members(f, keys \ {key})
       IN "\"" \o key \o "\":" \o Stringify(f[key])
            \o (IF rest = "" THEN "" ELSE "," \o rest)

Elements(e) ==
  IF e = <<>> THEN ""
  ELSE (IF Head(e).k = "undefined" THEN "null" ELSE Stringify(Head(e)))
         \o (IF Len(e) = 1 THEN "" ELSE "," \o Elements(Tail(e)))

Stringify(x) ==
  CASE x.k = "undefined" -> "undefined"
    [] x.k = "null" -> "null"
    [] x.k = "boolean" -> IF x.v THEN "true" ELSE "false"
    [] x.k = "number" ->
         ToString(x.v) \o (IF "half" \in DOMAIN x THEN ".5" ELSE "")
    [] x.k = "string" -> "\"" \o x.v \o "\""
    [] x.k = "array" -> "[" \o Elements(x.e) \o "]"
    [] OTHER ->
         "{" \o Members(x.f, {key \in DOMAIN x.f : x.f[key].k # "undefined"})
             \o "}"

\* stagehand.extract rejected.
Rejection == [k |-> "rejection"]

\* The values stagehand.extract may resolve to.
ExtractValues ==
  {JsUndefined, JsNull, JsBool(FALSE), JsNumber(0), JsString(""),
   JsString("text"), JsNumber(7), JsArray(<<>>),
   JsObject([title |-> JsString("text")])}

\* extractedDataError without the typeof test.
extractedDataErrorNullOnly(data) ==
  IF Falsy(data) THEN "Extraction returned null or undefined" ELSE ""

\* The checks on the value extract resolved to: the message of the error
\* thrown, "" when the value passes.
extractedDataError(data) ==
  IF Falsy(data) THEN "Extraction returned null or undefined"
  ELSE IF TypeOf(data) # "object" THEN
    "Extraction returned non-object type: " \o TypeOf(data)
  ELSE ""

\* The values stagehand.observe may resolve to.
ObserveValues ==
  {JsArray(<<>>),
   JsArray(<<JsObject([selector |-> JsString("#searchButton")])>>)}

\* observed with the operation log attached to the result.
observedWithLogs(c, observations) ==
  LET c1 == [log(c, "Observation completed successfully: ")
               EXCEPT !.call.observations = observations]
  IN success(c1, <<Text("Observations: ", <<Stringify(observations)>>),
                   LogsText(c1.logs)>>)

\* case "stagehand_observe" once stagehand.observe has resolved.
observed(c, observations) ==
  success([log(c, "Observation completed successfully: ")
             EXCEPT !.call.observations = observations],
          <<Text("Observations: ", <<Stringify(observations)>>)>>)

\* What the awaited capability of tool `name` can settle to.
OpOutcomes(name) ==
  IF name = "stagehand_extract" THEN ExtractValues \cup {Rejection}
  ELSE IF name = "stagehand_observe" THEN ObserveValues \cup {Rejection}
  ELSE {"ok", "fail"}

\* The case of the switch once its awaited capability has settled.
afterOp(c, name, outcome) ==
  CASE name = "stagehand_navigate" ->
         IF outcome = "ok" THEN
           success(log(c, "Navigation successful"),
                   <<Text("Navigated to: ", <<"url">>)>>)
         ELSE failure(threw(c), "Navigation failed: ", "Failed to navigate: ", "boom")
    [] name = "stagehand_act" ->
         IF outcome = "ok" THEN
           success(log(c, "Action completed successfully"),
                   <<Text("Action performed: ", <<"action">>)>>)
         ELSE failure(threw(c), "Action failed: ", "Failed to perform action: ", "boom")
    [] name = "stagehand_extract" ->
         IF outcome = Rejection THEN
           failure(threw(c), "Extraction failed: ", "Failed to extract: ", "boom")
         ELSE
           LET data == outcome
               c1 == [log(c, "Raw extraction response: ") EXCEPT !.call.data = data]
               errorMsg == extractedDataError(data)
           IN IF errorMsg # "" THEN
                failure(c1, "Extraction failed: ", "Failed to extract: ", errorMsg)
              ELSE
                LET c2 == log(c1, "Data extracted successfully: ")
                IN success(c2, <<Text("Extraction result: ", <<Stringify(data)>>),
                                 LogsText(c2.logs)>>)
    [] name = "stagehand_observe" ->
         IF outcome = Rejection THEN
           failure(threw(c), "Observation failed: ", "Failed to observe: ", "boom")
         ELSE observed(c, outcome)
    [] OTHER ->
         IF outcome = "ok" THEN
           success(log(c, "Screenshot saved to: "),
                   <<Text("Screenshot saved to: ", <<"filepath">>),
                     Text("File URL: ", <<"fileUrl">>)>>)
         ELSE failure(threw(c), "Screenshot failed: ", "Failed to take screenshot: ", "boom")

\* afterQuery capturing whatever the lookup gave.
afterQueryCapturingAnyway(c, outcome) ==
  CASE outcome \in {"element", "null"} ->
         invokeOnHandle([c EXCEPT !.call.element = outcome], c.pending,
                        "element.screenshot", "elshot")
    [] OTHER ->
         failure(threw(c), "Screenshot failed: ", "Failed to take screenshot: ", "boom")

\* case "stagehand_screenshot" once page.$(selector) has settled.
afterQuery(c, outcome) ==
  CASE outcome = "element" ->
         invokeOnHandle([c EXCEPT !.call.element = outcome], c.pending,
                        "element.screenshot", "elshot")
    [] outcome = "null" ->
         failure([c EXCEPT !.call.element = outcome],
                 "Screenshot failed: ", "Failed to take screenshot: ",
                 "Element not found with selector: ")
    [] OTHER ->
         failure(threw(c), "Screenshot failed: ", "Failed to take screenshot: ", "boom")

\* case "stagehand_screenshot" once element.screenshot has settled.
afterElementScreenshot(c, outcome) ==
  IF outcome = "ok" THEN
    success(log(c, "Element screenshot saved to: "),
            <<Text("Screenshot saved to: ", <<"filepath">>),
              Text("File URL: ", <<"fileUrl">>)>>)
  ELSE failure(threw(c), "Screenshot failed: ", "Failed to take screenshot: ", "boom")

\* ------------------------------------------------- the request handlers
\* clearLogs without the assignment to operationLogs.length.
clearLogsSkipped(c) == c

\* `operationLogs.length = 0`.
clearLogs(c) ==
  [c EXCEPT !.logs = <<>>, !.call.stale = 0, !.call.clears = @ + 1]

\* handleRequest with handleToolCall started but not awaited: the response
\* is returned while the call is still running.
handleRequestWithoutAwait(c, name, e) ==
  [handleToolCall(clearLogs(log(c, "Received tool call request for: ")), name, e)
     EXCEPT !.call.responded = TRUE]

\* The CallTool request handler up to `await handleToolCall(...)`.
handleRequest(c, name, e) ==
  handleToolCall(clearLogs(log(c, "Received tool call request for: ")), name, e)

\* ------------------------------------------------------------- actions
InFlight == {q \in Handlers : pc[q] # "idle"}

\* The handlers whose request has been delivered and not yet answered.
Unanswered == {q \in Handlers : pc[q] # "idle" /\ ~call[q].responded}

\* The executions that have not yet reached `new Stagehand`.
MayConstruct == {q \in Handlers : pc[q] \in {"probe", "close"}}

\* The CallTool request handler, from the arrival of a request to the first
\* await inside handleToolCall.  An execution constructs at most one
\* instance: requests arrive while `budget` instances are enough for it and
\* for those in flight.  A new execution takes the first free place.
Deliver(p, name, args, budget) ==
  /\ pc[p] = "idle"
  /\ \A q \in Handlers : q < p => pc[q] # "idle"
  /\ created + Cardinality(MayConstruct) < budget
  /\ \E e \in Env :
       LET c0 == [Ctx(p) EXCEPT !.result = NoResult, !.settled = NotSettled,
                                !.call = [NoCall EXCEPT
                                            !.slot0 = stagehand,
                                            !.stale = Len(operationLogs),
                                            !.early = (Unanswered # {})]]
       IN /\ req' = [req EXCEPT ![p] = [name |-> name, args |-> args]]
          /\ Commit(p, handleRequest(c0, name, e))

Receive(p) ==
  /\ \E name \in Names : \E args \in ArgsFor(name) :
       Deliver(p, name, args, MaxSessions)
  /\ UNCHANGED <<delivered, applied>>

\* The transport hands over a request once the one before it is answered.
ReceiveNext(p) ==
  /\ Unanswered = {}
  /\ Receive(p)

\* The ListTools request handler.
ListTools ==
  /\ Cardinality({i \in DOMAIN operationLogs :
                    operationLogs[i] = "Listing available tools"}) < MaxListings
  /\ operationLogs' = Append(operationLogs, "Listing available tools")
  /\ listed' = TOOLS
  /\ UNCHANGED applied
  /\ UNCHANGED <<stagehand, sess, created, pc, req, needsInitialization,
                 pending, settled, result, call, delivered>>

\* The same, with the transport handing over one request at a time.
ListToolsNext ==
  /\ Unanswered = {}
  /\ ListTools

ProbeDone(p) ==
  /\ pc[p] = "probe"
  /\ \E outcome \in ProbeOutcomes(pending[p]) : \E e \in Env :
       Commit(p, afterProbe(Ctx(p), outcome, e))
  /\ UNCHANGED <<req, delivered, applied>>

CloseDone(p) ==
  /\ pc[p] = "close"
  /\ \E outcome \in {"ok", "reject"} : \E e \in EnvAfterClose :
       Commit(p, afterClose(Ctx(p), outcome, e))
  /\ UNCHANGED <<req, delivered, applied>>

InitDone(p) ==
  /\ pc[p] = "init"
  /\ \E outcome \in {"ok", "fail"} : \E e \in EnvAfterInit :
       Commit(p, afterInit(Ctx(p), outcome, e))
  /\ UNCHANGED <<req, delivered, applied>>

EnsureSettled(p) ==
  /\ pc[p] = "settled"
  /\ Commit(p, afterEnsure(Ctx(p), req[p].name, req[p].args))
  /\ UNCHANGED <<req, delivered, applied>>

OpDone(p) ==
  /\ pc[p] = "op"
  /\ \E outcome \in OpOutcomes(req[p].name) :
       Commit(p, afterOp(Ctx(p), req[p].name, outcome))
  /\ UNCHANGED <<req, delivered, applied>>

QueryDone(p) ==
  /\ pc[p] = "query"
  /\ \E outcome \in {"element", "null", "fail"} :
       Commit(p, afterQuery(Ctx(p), outcome))
  /\ UNCHANGED <<req, delivered, applied>>

ElementScreenshotDone(p) ==
  /\ pc[p] = "elshot"
  /\ \E outcome \in {"ok", "fail"} :
       Commit(p, afterElementScreenshot(Ctx(p), outcome))
  /\ UNCHANGED <<req, delivered, applied>>

\* The CallTool request handler after handleToolCall has returned: the result
\* leaves with the response and the execution's locals are gone.
Respond(p) ==
  /\ pc[p] = "handled"
  /\ Commit(p, [log(Ctx(p), "Tool call completed")
                  EXCEPT !.pc = "idle", !.needs = FALSE, !.pending = Undefined,
                         !.settled = NotSettled, !.result = NoResult,
                         !.call = NoCall])
  /\ req' = [req EXCEPT ![p] = NoRequest]
  /\ UNCHANGED <<delivered, applied>>

\* What a handler in flight does next.
Step(p) ==
  \/ ProbeDone(p)
  \/ CloseDone(p)
  \/ InitDone(p)
  \/ EnsureSettled(p)
  \/ OpDone(p)
  \/ QueryDone(p)
  \/ ElementScreenshotDone(p)
  \/ Respond(p)

Next ==
  \/ \E p \in Handlers : ReceiveNext(p) \/ Step(p)
  \/ ListToolsNext

\* Requests delivered one at a time.
Spec == Init /\ [][Next]_vars

\* The same, when every promise the handlers await settles: the browser
\* answers every capability call, and the continuation of a settled promise
\* is run.
SpecLive == Spec /\ \A p \in Handlers : WF_vars(Step(p))

\* The requests sent without waiting for the response to the one before: a
\* forced reinitialisation and a probing call.
OverlapRequests ==
  {[name |-> "stagehand_navigate", args |-> NoArgs],
   [name |-> "stagehand_screenshot",
    args |-> [NoArgs EXCEPT !.name = JsString("My Screenshot!"),
                            !.selector = JsString("#searchButton")]]}

\* The executions between the settling of a promise of the program's own
\* (ensureStagehand's, handleToolCall's) and the continuation awaiting it:
\* these continuations are microtasks, which run before the event loop takes
\* the next message from the transport.
Resuming == {q \in Handlers : pc[q] \in {"settled", "handled"}}

\* A request arrives while the others wait for the browser.
ReceiveAnyTime(p) ==
  /\ Resuming = {}
  /\ delivered < MaxOverlapRequests
  /\ delivered' = delivered + 1
  /\ UNCHANGED applied
  /\ \E r \in OverlapRequests : Deliver(p, r.name, r.args, MaxOverlapSessions)

NextAnyTime ==
  \E p \in Handlers : ReceiveAnyTime(p) \/ Step(p)

\* Requests delivered whenever the client sends them.
SpecAnyTime == Init /\ [][NextAnyTime]_vars

\* ------------------------------------- jsonSchemaToZod applied on its own
\* Number of property keys an object schema declares at most.
MaxProperties == 2
PropertyKeys == <<"a", "b", "c">>
Keys == {PropertyKeys[i] : i \in 1..MaxProperties}
\* A key no schema declares.
UndeclaredKey == "z"

\* The set `S` in some order.
RECURSIVE SetToSeq(_)
SetToSeq(S) ==
  IF S = {} THEN <<>>
  ELSE LET x == CHOOSE x \in S : TRUE IN <<x>> \o SetToSeq(S \ {x})

\* The objects whose keys are some of `keys`, their values from `values`.
Objects(keys, values) ==
  {JsObject(f) : f \in UNION {[D -> values] : D \in SUBSET keys}}

\* What a schema may hold under a property key: a string, an integer with a
\* minimum, an untyped and an unknown-typed schema, null, a string.
PropertySchemas ==
  {JsObject([type |-> JsString("string")]),
   JsObject([type |-> JsString("integer"), minimum |-> JsNumber(1)]),
   JsObject([key \in {} |-> JsUndefined]),
   JsObject([type |-> JsString("date")]),
   JsNull,
   JsString("text")}

\* What `required` may hold: nothing, the empty array, a string, an array of
\* some declared keys and the undeclared one.
RequiredLists ==
  {JsUndefined, JsArray(<<>>), JsString("a")}
    \cup {JsArray(SetToSeq({JsString(key) : key \in S})) :
            S \in SUBSET (Keys \cup {UndeclaredKey}) \ {{}}}

ObjectSchemas ==
  {JsObject([type |-> JsString("object"), properties |-> properties,
             required |-> required]) :
     properties \in Objects(Keys, PropertySchemas) \cup {JsUndefined},
     required \in RequiredLists}

\* The other arguments jsonSchemaToZod is given: no object at all, and
\* schemas of the other types, nested ones among them.
OtherSchemas ==
  {JsUndefined, JsNull, JsString("title"), JsNumber(7), JsBool(TRUE),
   JsArray(<<>>), JsArray(<<JsNull>>),
   JsObject([type |-> JsString("string"), pattern |-> JsString("^t"),
             minLength |-> JsNumber(2), maxLength |-> JsNumber(4)]),
   JsObject([type |-> JsString("string"), pattern |-> JsString("(")]),
   JsObject([type |-> JsString("number"), maximum |-> JsNumber(7)]),
   JsObject([type |-> JsString("boolean")]),
   JsObject([type |-> JsString("null")]),
   JsObject([type |-> JsString("array")]),
   JsObject([type |-> JsString("array"), items |-> JsNull]),
   JsObject([type |-> JsString("array"), items |-> JsString("text")]),
   JsObject([type |-> JsString("array"),
             items |-> JsObject([type |-> JsString("string")]),
             minItems |-> JsNumber(1), maxItems |-> JsNumber(1)]),
   JsObject([type |-> JsString("object"),
             properties |-> JsArray(<<JsNull>>)]),
   JsObject([type |-> JsString("object"),
             properties |-> JsObject([a |-> TitleSchema]),
             required |-> JsArray(<<JsString("a")>>)])}

\* Number and integer schemas with the same bounds.
NumericSchemas ==
  {JsObject([type |-> JsString(type), minimum |-> minimum, maximum |-> maximum]) :
     type \in {"number", "integer"},
     minimum \in {JsUndefined, JsNumber(7)},
     maximum \in {JsUndefined, JsNumber(7), JsNumber(8)}}

Schemas == ObjectSchemas \cup OtherSchemas \cup NumericSchemas

\* The values validated.
PropertyValues == {JsString("text"), JsNumber(7), JsNull}
Values ==
  Objects(Keys, PropertyValues)
    \cup {JsNull, JsString("text"), JsString("7"), JsNumber(7), JsHalf(7),
          JsNumber(6), JsHalf(6), JsNumber(8), JsHalf(8),
          JsBool(TRUE), JsArray(<<>>), JsArray(<<JsString("text")>>),
          JsArray(<<JsNumber(7)>>),
          JsObject([a |-> JsObject([title |-> JsString("text")])]),
          JsObject([a |-> JsObject([key \in {} |-> JsUndefined])])}

InitConvert ==
  /\ Started
  /\ sess[1].page = "absent"
  /\ applied \in [step : {"given"}, schema : Schemas, value : Values]

\* jsonSchemaToZod(schema) returns or throws.
Convert ==
  /\ applied.step = "given"
  /\ LET zodSchema == jsonSchemaToZod(applied.schema)
     IN applied' = [step |-> IF zodSchema.z = "throw" THEN "threw" ELSE "converted",
                    schema |-> applied.schema, value |-> applied.value,
                    zodSchema |-> zodSchema]
  /\ UNCHANGED server

\* The validator returned is applied to the value.
Validate ==
  /\ applied.step = "converted"
  /\ applied' = [step |-> "validated", schema |-> applied.schema,
                 value |-> applied.value, zodSchema |-> applied.zodSchema,
                 success |-> Accepts(applied.zodSchema, applied.value)]
  /\ UNCHANGED server

NextConvert == Convert \/ Validate

\* Every schema converted, every value validated by the result.
SpecConvert == InitConvert /\ [][NextConvert]_vars

\* ------------------------------------ the screenshot filename on its own
\* Strings are sequences of UTF-16 code units here.
\* Length of the screenshot names tried.
MaxNameLength == 2

UpperCaseLetters == 65..90
LowerCaseLetters == 97..122
Digits == 48..57
Underscore == 95
Colon == 58
Hyphen == 45
\* ".png"
PngSuffix == <<46, 112, 110, 103>>

\* The code units names are made of: a z A Z 0 9 _ space ! : . and, outside
\* ASCII, e-acute, the Kelvin sign (whose lower case is k) and a surrogate.
CodeUnits == {97, 122, 65, 90, 48, 57, 95, 32, 33, 58, 46, 233, 8490, 55357}

NameStrings == UNION {[1..n -> CodeUnits] : n \in 0..MaxNameLength}

\* new Date().toISOString() at two instants:
\* "2026-11-01T13:54:42.123Z" and
\* "1999-12-31T23:59:59.999Z".
IsoStrings ==
  {<<50, 48, 50, 54, 45, 49, 49, 45, 48, 49, 84, 49, 51, 58, 53, 52, 58, 52, 50, 46, 49, 50, 51, 90>>,
   <<49, 57, 57, 57, 45, 49, 50, 45, 51, 49, 84, 50, 51, 58, 53, 57, 58, 53, 57, 46, 57, 57, 57, 90>>}

\* name.replace(/[^a-z0-9]/g, '_'): the class without the i flag.
replaceCaseSensitive(name) ==
  [i \in DOMAIN name |->
     IF name[i] \in LowerCaseLetters \cup Digits THEN name[i] ELSE Underscore]

\* name.replace(/[^a-z0-9]/gi, '_'): with the i flag (and no u flag) the class
\* holds the ASCII letters of both cases and the digits, and no code unit
\* outside ASCII.
replace(name) ==
  [i \in DOMAIN name |->
     IF name[i] \in LowerCaseLetters \cup UpperCaseLetters \cup Digits
     THEN name[i] ELSE Underscore]

\* String.prototype.toLowerCase on the code units of the model.
toLowerCase(str) ==
  [i \in DOMAIN str |->
     IF str[i] \in UpperCaseLetters THEN str[i] + 32
     ELSE IF str[i] = 8490 THEN 107
     ELSE str[i]]

\* isoString.replace(/:/g, '-').
replaceColons(isoString) ==
  [i \in DOMAIN isoString |->
     IF isoString[i] = Colon THEN Hyphen ELSE isoString[i]]

\* `${sanitizedName}_${timestamp}.png`.
filename(name, isoString) ==
  LET timestamp == replaceColons(isoString)
      sanitizedName == toLowerCase(replace(name))
  IN sanitizedName \o <<Underscore>> \o timestamp \o PngSuffix

InitFilename ==
  /\ Started
  /\ sess[1].page = "absent"
  /\ applied \in [step : {"given"}, name : NameStrings, isoString : IsoStrings]

\* The screenshot case computes the filename.
Filename ==
  /\ applied.step = "given"
  /\ applied' = [step |-> "named", name |-> applied.name,
                 isoString |-> applied.isoString,
                 filename |-> filename(applied.name, applied.isoString)]
  /\ UNCHANGED server

\* Every name at every instant.
SpecFilename == InitFilename /\ [][Filename]_vars

\* ================================================================ claims
Awaiting(p) == pc[p] \in {"op", "query", "elshot"}

\* C1: ensureStagehand(true) on an occupied slot calls close() on the
\* instance in the slot, then evaluates `new Stagehand` and calls init() on
\* the new instance, whether or not the old one was live; what it returns is
\* the instance built in this call, never the one that was in the slot.
C1_ForcedReinitialization ==
  \A p \in Handlers :
    (pc[p] # "idle" /\ call[p].force /\ call[p].slot0 # Undefined) =>
      LET k == call[p] IN
      /\ k.closedOn = k.slot0
      /\ sess[k.slot0].closeCalled
      /\ k.probed = Undefined
      /\ IF pc[p] = "close" THEN k.ctors = 0 ELSE k.ctors = 1
      /\ (k.ctors = 1 /\ k.threw # "constructor") =>
            (k.built \notin {Undefined, k.slot0} /\ k.inits = 1)
      /\ settled[p].ok =>
            (settled[p].val = k.built /\ settled[p].val # k.slot0 /\ k.init = "ok")

C1_Witness ==
  \E p \in Handlers :
    /\ pc[p] = "settled" /\ call[p].force /\ call[p].slot0 # Undefined
    /\ sess[call[p].slot0].init = "ok"
    /\ settled[p].ok

\* C2: ensureStagehand(false) on a slot whose instance answers the probe
\* returns that instance: no close(), no `new Stagehand`, no init().
C2_ProbePassReturnsExisting ==
  \A p \in Handlers :
    (pc[p] # "idle" /\ call[p].probed # Undefined) =>
      LET k == call[p] IN
      /\ ~k.force
      /\ k.probed = k.slot0
      /\ settled[p] = Resolved(k.slot0)
      /\ k.closedOn = Undefined /\ k.ctors = 0 /\ k.inits = 0
      /\ k.built = Undefined
      /\ ~sess[k.slot0].closeCalled
      /\ stagehand = k.slot0

C2_Witness ==
  \E p \in Handlers :
    pc[p] = "settled" /\ call[p].probed # Undefined /\ settled[p].ok

\* C3: a failed probe (page.evaluate rejects, the page handle is absent, or
\* reading it throws) makes the same call close the old instance and build
\* and initialise a replacement; the probe failure is never the error that
\* is returned, and once the replacement is initialised the requested
\* operation runs on the replacement.
C3_ProbeFailureRecreates ==
  \A p \in Handlers :
    (pc[p] # "idle" /\ call[p].probeFailed # "") =>
      LET k == call[p] IN
      /\ ~k.force /\ k.slot0 # Undefined /\ k.probed = Undefined
      /\ k.closedOn = k.slot0
      /\ IF pc[p] = "close" THEN k.ctors = 0 ELSE k.ctors = 1
      /\ (k.ctors = 1 /\ k.threw # "constructor") =>
            (k.built \notin {Undefined, k.slot0} /\ k.inits = 1)
      /\ (pc[p] \in {"settled", "handled"} /\ ~settled[p].ok) =>
            /\ settled[p].msg \in {"init failed", "constructor failed"}
            /\ k.threw \in {"init", "constructor"}
      /\ (pc[p] = "handled" /\ ~settled[p].ok) =>
            result[p].content[1] =
              Text("Failed to initialize Stagehand: ", <<settled[p].msg>>)
      /\ k.init = "ok" => settled[p] = Resolved(k.built)
      /\ Awaiting(p) => (pending[p] = k.built /\ k.init = "ok")
      /\ (pc[p] = "handled" /\ k.init = "ok") =>
            /\ req[p].name = "stagehand_navigate" => k.ops = <<"goto">>
            /\ req[p].name = "stagehand_act" => k.ops = <<"act">>
            /\ req[p].name = "stagehand_observe" => k.ops = <<"observe">>

C3_Witness ==
  \E p \in Handlers :
    /\ pc[p] = "op" /\ call[p].probeFailed = "reject"
    /\ pending[p] = call[p].built /\ call[p].closedOn = call[p].slot0

\* C4: the instance ensureStagehand returns either answered the probe in
\* this call or was built in this call with init() resolved; an instance
\* whose init() failed earlier is returned only after it answered a probe.
C4_ReturnedSessionIsLive ==
  \A p \in Handlers :
    (pc[p] # "idle" /\ settled[p].ok) =>
      LET k == call[p]
          v == settled[p].val
      IN /\ v # Undefined
         /\ \/ v = k.probed
            \/ v = k.built /\ k.init = "ok" /\ sess[v].init = "ok"
         /\ sess[v].init = "failed" => v = k.probed
         /\ pc[p] = "settled" => (stagehand = v /\ ~sess[v].closeCalled)

C4_Witness ==
  \E p \in Handlers :
    /\ pc[p] = "settled" /\ settled[p].ok
    /\ settled[p].val = call[p].built
    /\ call[p].slot0 # Undefined /\ sess[call[p].slot0].init = "failed"

\* C5 as stated: at most one instance is initialised and not successfully
\* closed.
C5_AtMostOneNotClosed ==
  Cardinality({s \in Sessions : sess[s].init = "ok" /\ ~sess[s].closed}) <= 1

\* C5 as amended: at most one initialised instance has had no close()
\* attempted on it, and it is the one in the slot.
C5_AtMostOneWithoutCloseAttempt ==
  LET open == {s \in Sessions : sess[s].init = "ok" /\ ~sess[s].closeCalled}
  IN Cardinality(open) <= 1 /\ open \subseteq {stagehand}

C5_Witness ==
  \E s, t \in Sessions :
    /\ s # t /\ stagehand = t
    /\ sess[s].init = "ok" /\ sess[s].closeCalled /\ ~sess[s].closed
    /\ sess[t].init = "ok" /\ ~sess[t].closeCalled

InLog(message) == \E i \in DOMAIN operationLogs : operationLogs[i] = message

\* C6: when close() on the old instance fails during recreation (rejects or
\* throws), the failure is pushed onto the log, is not the error of the
\* call, and `new Stagehand` and init() follow.
C6_CloseFailureSwallowed ==
  \A p \in Handlers :
    (pc[p] # "idle" /\ call[p].closeFailed # "") =>
      LET k == call[p] IN
      /\ InLog(IF k.closeFailed = "reject" THEN "Error closing previous instance: "
               ELSE "Error during cleanup: ")
      /\ k.ctors = 1
      /\ k.threw # "constructor" =>
           (k.built \notin {Undefined, k.slot0} /\ k.inits = 1)
      /\ pc[p] \notin {"probe", "close"}
      /\ (pc[p] \in {"settled", "handled"} /\ ~settled[p].ok) =>
           (k.threw \in {"init", "constructor"}
              /\ settled[p].msg \in {"init failed", "constructor failed"})
      /\ k.init = "ok" => settled[p] = Resolved(k.built)

C6_Witness ==
  \E p \in Handlers :
    /\ pc[p] = "settled" /\ call[p].closeFailed = "reject"
    /\ settled[p] = Resolved(call[p].built)

\* C7: when init() fails, handleToolCall returns isError true with the
\* initialisation failure message first and the log snapshot second, and no
\* capability of the switch is invoked, whatever the tool name.
C7_InitFailureShortCircuits ==
  \A p \in Handlers :
    (pc[p] # "idle" /\ call[p].init = "failed") =>
      /\ pc[p] \in {"settled", "handled"}
      /\ call[p].ops = <<>>
      /\ pc[p] = "handled" =>
           result[p] =
             [isError |-> TRUE,
              content |-> <<Text("Failed to initialize Stagehand: ", <<"init failed">>),
                            LogsText(operationLogs)>>]

C7_Witness ==
  \E p \in Handlers :
    /\ pc[p] = "handled" /\ call[p].init = "failed"
    /\ req[p].name = "stagehand_extract"
    /\ result[p].isError

\* C8 as stated: the call after a failed init() builds and initialises a new
\* instance instead of returning the one whose init() failed.
C8_RetryFromScratch ==
  \A p \in Handlers :
    (pc[p] \in {"settled", "handled"} \cup {"op", "query", "elshot"}
       /\ call[p].slot0 # Undefined /\ sess[call[p].slot0].init = "failed") =>
      /\ call[p].ctors = 1
      /\ settled[p].ok =>
           (settled[p].val = call[p].built /\ settled[p].val # call[p].slot0)

\* C9 as stated: an unknown name always gets isError true with the
\* "Unknown tool" text and then the log snapshot.
C9_UnknownToolAlways ==
  \A p \in Handlers :
    (pc[p] = "handled" /\ req[p].name \notin ToolNames) =>
      result[p] =
        [isError |-> TRUE,
         content |-> <<Text("Unknown tool: ", <<req[p].name>>),
                       LogsText(operationLogs)>>]

\* C9 as amended: an unknown name always gets isError true and the log
\* snapshot; the first text is "Unknown tool" when ensureStagehand returned
\* and the initialisation failure message when it threw.  No capability is
\* invoked.
C9_UnknownToolAfterSession ==
  \A p \in Handlers :
    (pc[p] = "handled" /\ req[p].name \notin ToolNames) =>
      /\ call[p].ops = <<>>
      /\ result[p] =
           [isError |-> TRUE,
            content |-> <<IF settled[p].ok
                            THEN Text("Unknown tool: ", <<req[p].name>>)
                            ELSE Text("Failed to initialize Stagehand: ",
                                      <<settled[p].msg>>),
                          LogsText(operationLogs)>>]

C9_Witness ==
  \E p \in Handlers :
    /\ pc[p] = "handled" /\ req[p].name = UnknownName
    /\ settled[p].ok /\ call[p].probed # Undefined
    /\ result[p].content[1].head = "Unknown tool: "

\* The entries the catch blocks of handleToolCall push.
FailureEntries ==
  {"Failed to initialize Stagehand: ", "Navigation failed: ", "Action failed: ",
   "Extraction failed: ", "Observation failed: ", "Screenshot failed: "}

\* A call of session init or of a capability, or the schema conversion,
\* failed in this execution.
Failed(p) ==
  \/ call[p].threw # ""
  \/ /\ req[p].name = "stagehand_extract"
     /\ settled[p].ok
     /\ jsonSchemaToZod(req[p].args.schema).z = "throw"

\* C10: every failure of session init, of a capability or of the schema
\* conversion ends handleToolCall with a result: isError true, a message
\* text, and the log snapshot taken after the failure entry was pushed.
C10_FailuresBecomeResults ==
  \A p \in Handlers :
    /\ (call[p].threw # "" /\ call[p].threw \notin {"init", "constructor"}) =>
         pc[p] = "handled"
    /\ (pc[p] = "handled" /\ Failed(p)) =>
         /\ result[p].isError
         /\ Len(result[p].content) = 2
         /\ result[p].content[1].type = "text"
         /\ Len(result[p].content[1].body) = 1
         /\ result[p].content[2] = LogsText(operationLogs)
         /\ operationLogs[Len(operationLogs)] \in FailureEntries

C10_Witness ==
  \E p \in Handlers :
    /\ pc[p] = "handled" /\ call[p].threw = "goto"
    /\ result[p].isError

\* ------------------------------------------------------------------ C11
\* Entries that only something other than the running handleToolCall writes:
\* start-up, a list-tools request, and the request handler around the call.
OutsideEntries ==
  {"Starting Stagehand MCP server...", "Server started successfully",
   "Listing available tools", "Received tool call request for: ",
   "Tool call completed"}

\* The log `logs` holds what one handleToolCall execution wrote and nothing
\* else: its opening entry first and once, no entry written outside it.
OnlyThisCall(logs) ==
  /\ logs # <<>>
  /\ logs[1] = "Handling tool call: "
  /\ \A i \in DOMAIN logs : i > 1 => logs[i] # "Handling tool call: "
  /\ \A i \in DOMAIN logs : logs[i] \notin OutsideEntries

\* The log texts a result carries.
AttachedLogs(r) ==
  {r.content[i].body : i \in {j \in DOMAIN r.content :
                                r.content[j].head = "Operation logs:"}}

\* C11: with requests handled one at a time, the log is cleared exactly once
\* per tool-call request, before handleToolCall writes its first entry; from
\* then to the response the log, and the copy of it attached to the result,
\* holds only entries of this request's handling: none from an earlier tool
\* call, a list-tools request, start-up or the earlier "Tool call completed".
C11_LogHoldsOnlyThisRequest ==
  \A p \in Handlers :
    pc[p] # "idle" =>
      /\ call[p].clears = 1
      /\ call[p].stale = 0
      /\ OnlyThisCall(operationLogs)
      /\ \A logs \in AttachedLogs(result[p]) : OnlyThisCall(logs)

\* A later request (a session was already in the slot when it arrived, so
\* an earlier call had written to the log) ends with the log attached.
C11_Witness ==
  \E p \in Handlers :
    /\ pc[p] = "handled"
    /\ call[p].slot0 # Undefined
    /\ call[p].clears = 1
    /\ AttachedLogs(result[p]) = {operationLogs}


\* ------------------------------------------------------------------ C12
\* C12 as stated: whenever requests arrive, no two executions of the
\* CallTool handler are in flight at the same time.
C12_NeverTwoInFlight == Cardinality(InFlight) <= 1

\* C12, amended: the handler returns its response only when its
\* handleToolCall has finished, and it has no gate of its own: two executions
\* are in flight together only if one of their requests was delivered while
\* another request was still waiting for its response.
C12_OverlapOnlyByEarlyDelivery ==
  /\ \A p \in Handlers : pc[p] # "idle" => ~call[p].responded
  /\ \A p, q \in Handlers :
       p # q /\ pc[p] # "idle" /\ pc[q] # "idle" =>
         call[p].early \/ call[q].early

\* A request delivered early runs beside the one before it, both suspended
\* at awaits inside handleToolCall.
C12_Witness ==
  \E p, q \in Handlers :
    /\ p # q
    /\ pc[p] \in {"init", "op"}
    /\ pc[q] \in {"probe", "query"}
    /\ ~call[p].early
    /\ call[q].early


\* ------------------------------------------------------------------ C13
\* The calls that carry out a tool (page.$ only looks an element up).
Capabilities ==
  {"goto", "act", "extract", "observe", "page.screenshot(fullPage)",
   "page.screenshot(viewport)", "element.screenshot"}

\* How many entries of the sequence `ops` are in the set `S`.
Count(ops, S) == Cardinality({i \in DOMAIN ops : ops[i] \in S})

\* C13: nothing is retried.  In one handleToolCall execution the tool's
\* capability is invoked at most once (and the element lookup at most once),
\* `new Stagehand` and init() are evaluated at most once; when the capability
\* fails the call is over with an error result, the failed call being the
\* last one made; when the constructor or init() fails no capability is
\* invoked; and once the switch has invoked anything, the execution
\* constructs, initialises and closes nothing and, after a failure, invokes
\* nothing more.
C13_NoAutomaticRetry ==
  /\ [](\A p \in Handlers :
          /\ Count(call[p].ops, Capabilities) <= 1
          /\ Count(call[p].ops, {"$"}) <= 1
          /\ call[p].ctors <= 1
          /\ call[p].inits <= 1
          /\ call[p].threw \in {"init", "constructor"} => call[p].ops = <<>>
          /\ call[p].threw \in Capabilities \cup {"$"} =>
               /\ pc[p] = "handled"
               /\ result[p].isError
               /\ call[p].ops[Len(call[p].ops)] = call[p].threw)
  /\ [][\A p \in Handlers :
          call[p].ops # <<>> /\ pc'[p] # "idle" =>
            /\ call'[p].ctors = call[p].ctors
            /\ call'[p].inits = call[p].inits
            /\ call'[p].closedOn = call[p].closedOn
            /\ call[p].threw # "" => call'[p].ops = call[p].ops]_vars

\* The session was recreated and initialised in this call, then the tool's
\* capability failed and the call ended.
C13_Witness ==
  \E p \in Handlers :
    /\ pc[p] = "handled"
    /\ call[p].threw \in Capabilities
    /\ call[p].inits = 1
    /\ call[p].closedOn # Undefined


\* ------------------------------------------------------------------ C14
\* C14: when stagehand.extract resolves, a value that is null, undefined or
\* not of type object gives an isError result whose first text says that the
\* extraction returned null/undefined or a non-object type, followed by the
\* log; a value of type object (arrays included) gives a result with isError
\* false whose first text is the JSON of the value, followed by the log.
C14_ExtractResultShape ==
  \A p \in Handlers :
    (pc[p] = "handled" /\ call[p].data # NoData) =>
      LET data == call[p].data
          r == result[p]
      IN /\ req[p].name = "stagehand_extract"
         /\ Len(r.content) = 2
         /\ r.content[2] = LogsText(operationLogs)
         /\ data.k \in {"null", "undefined"} =>
              /\ r.isError
              /\ r.content[1] = Text("Failed to extract: ",
                                     <<"Extraction returned null or undefined">>)
         /\ data.k \notin {"null", "undefined", "array", "object"} =>
              /\ r.isError
              /\ r.content[1].head = "Failed to extract: "
              /\ r.content[1].body \in
                   {<<"Extraction returned null or undefined">>,
                    <<"Extraction returned non-object type: " \o data.k>>}
         /\ data.k \in {"array", "object"} =>
              /\ ~r.isError
              /\ r.content[1] = Text("Extraction result: ", <<Stringify(data)>>)

\* The extraction returned an object and the result carries its JSON; the
\* log attached ends with the success entry.
C14_Witness ==
  \E p \in Handlers :
    /\ pc[p] = "handled"
    /\ call[p].data = JsObject([title |-> JsString("text")])
    /\ ~result[p].isError
    /\ result[p].content[1].body = <<"{\"title\":\"text\"}">>
    /\ operationLogs[Len(operationLogs)] = "Data extracted successfully: "


\* ------------------------------------------------------------------ C15
\* C15: an extract call whose schema argument is missing (undefined, null)
\* or not of type object never invokes the extraction capability, and once
\* the session is there it ends with isError true, the text
\* "Failed to extract: Invalid schema" and the log.
C15_InvalidSchemaReported ==
  \A p \in Handlers :
    LET schema == req[p].args.schema
    IN (/\ req[p].name = "stagehand_extract"
        /\ Falsy(schema) \/ TypeOf(schema) # "object") =>
         /\ call[p].ops = <<>>
         /\ (pc[p] = "handled" /\ settled[p].ok) =>
              /\ result[p] = ErrorResult("Failed to extract: ", "Invalid schema",
                                         operationLogs)
              /\ operationLogs[Len(operationLogs)] = "Extraction failed: "

\* An extract call with a string for a schema has ended, the session in
\* place and untouched by the call.
C15_Witness ==
  \E p \in Handlers :
    /\ pc[p] = "handled"
    /\ req[p].name = "stagehand_extract"
    /\ req[p].args.schema = JsString("title")
    /\ settled[p].ok
    /\ result[p].content[1].body = <<"Invalid schema">>


\* ------------------------------------------------------------------ C16
\* C16 as stated: jsonSchemaToZod throws only when its argument is missing
\* or not of type object; on every top-level object, whatever is nested in
\* it, it returns a validator.
C16_ThrowsOnlyOnTopLevel ==
  applied.step = "threw" =>
    Falsy(applied.schema) \/ TypeOf(applied.schema) # "object"

\* ------------------------------------------------------------------ C17
\* The declared properties of an object schema node, by key.
Declared(schema) ==
  IF Falsy(Get(schema, "properties")) THEN [key \in {} |-> JsUndefined]
  ELSE Entries(Get(schema, "properties"))

\* The object schema nodes validated against an object, split by their
\* `required`.
ObjectNodeValidated ==
  /\ applied.step = "validated"
  /\ Get(applied.schema, "type") = JsString("object")
  /\ applied.value.k = "object"

RequiredGiven(schema) ==
  Get(schema, "required").k = "array" /\ Len(Get(schema, "required").e) > 0

\* The value `x` has the key, with a value that the validator converted from
\* the key's declared schema accepts (any value when none is declared).
PresentAndValid(schema, x, key) ==
  /\ Get(x, key).k # "undefined"
  /\ key \in DOMAIN Declared(schema) =>
       Accepts(convertSchema(Declared(schema)[key]), Get(x, key))

\* C17 as stated: the validator converted from an object schema with a
\* non-empty required list rejects every object missing a key listed in
\* required, and accepts every object whose required keys are all present
\* with correctly typed values and whose other declared properties are
\* absent or correctly typed.
C17_RequiredKeysEnforced ==
  (ObjectNodeValidated /\ RequiredGiven(applied.schema)) =>
    LET schema == applied.schema
        x == applied.value
        required == {Get(schema, "required").e[i].v :
                       i \in DOMAIN Get(schema, "required").e}
    IN /\ (\E key \in required : Get(x, key).k = "undefined") => ~applied.success
       /\ (/\ \A key \in required : PresentAndValid(schema, x, key)
           /\ \A key \in DOMAIN Declared(schema) \ required :
                Get(x, key).k = "undefined" \/ PresentAndValid(schema, x, key))
            => applied.success

\* ------------------------------------------------------------------ C18
\* C18: the validator converted from an object schema whose required list is
\* absent or empty (or not an array) accepts an object exactly when every
\* declared property the object has satisfies the validator converted from
\* its schema: any subset of the declared properties may be absent.
C18_AllOptionalWithoutRequired ==
  (ObjectNodeValidated /\ ~RequiredGiven(applied.schema)) =>
    (applied.success <=>
       \A key \in DOMAIN Declared(applied.schema) :
         Get(applied.value, key).k = "undefined"
           \/ PresentAndValid(applied.schema, applied.value, key))

\* Two typed properties declared, none required: the empty object passed.
C18_Witness ==
  /\ ObjectNodeValidated
  /\ Get(applied.schema, "required") = JsArray(<<>>)
  /\ Get(applied.schema, "properties") =
       JsObject([a |-> JsObject([type |-> JsString("string")]),
                 b |-> JsObject([type |-> JsString("integer"),
                                 minimum |-> JsNumber(1)])])
  /\ applied.value = JsObject([key \in {} |-> JsUndefined])
  /\ applied.success


\* ------------------------------------------------------------------ C19
PageCaptures == {"page.screenshot(fullPage)", "page.screenshot(viewport)"}

\* C19: a screenshot call with a selector makes the element lookup first and
\* once, and never a page capture; when the lookup finds nothing the call
\* ends with isError true and the element-not-found message, without any
\* capture; a call that succeeds made the lookup and then the element capture
\* only.  Without a selector there is no lookup and no element capture; the
\* page capture has fullPage true unless args.fullPage is exactly false.
C19_ScreenshotPaths ==
  \A p \in Handlers :
    req[p].name = "stagehand_screenshot" =>
      LET args == req[p].args
          ops == call[p].ops
      IN IF ~Falsy(args.selector) THEN
           /\ ops \in {<<>>, <<"$">>, <<"$", "element.screenshot">>}
           /\ call[p].element = "null" =>
                /\ pc[p] = "handled"
                /\ ops = <<"$">>
                /\ result[p] = ErrorResult("Failed to take screenshot: ",
                                           "Element not found with selector: ",
                                           operationLogs)
           /\ call[p].element = "element" => ops = <<"$", "element.screenshot">>
           /\ (pc[p] = "handled" /\ ~result[p].isError) =>
                call[p].element = "element"
         ELSE
           /\ ops \in {<<>>} \cup {<<capture>> : capture \in PageCaptures}
           /\ ops # <<>> =>
                (ops[1] = "page.screenshot(fullPage)"
                   <=> args.fullPage # JsBool(FALSE))
           /\ (pc[p] = "handled" /\ ~result[p].isError) => ops # <<>>

\* The lookup found no element: the call ended with the error and one
\* lookup, nothing captured.
C19_Witness ==
  \E p \in Handlers :
    /\ pc[p] = "handled"
    /\ req[p].name = "stagehand_screenshot"
    /\ ~Falsy(req[p].args.selector)
    /\ call[p].element = "null"
    /\ call[p].ops = <<"$">>
    /\ result[p].isError


\* ------------------------------------------------------------------ C20
\* C20: for every name, the filename starts with a part as long as the name
\* whose code units are all in [a-z0-9_]: each ASCII letter of the name in
\* lower case, each digit as it is, '_' for anything else; then comes '_',
\* then the ISO timestamp with every ':' turned into '-', then ".png".
C20_FilenameSanitised ==
  applied.step = "named" =>
    LET name == applied.name
        n == Len(name)
        t == Len(applied.isoString)
        part == SubSeq(applied.filename, 1, n)
        timestamp == SubSeq(applied.filename, n + 2, n + 1 + t)
    IN /\ Len(applied.filename) = n + 1 + t + Len(PngSuffix)
       /\ \A i \in 1..n :
            /\ part[i] \in LowerCaseLetters \cup Digits \cup {Underscore}
            /\ name[i] \in UpperCaseLetters => part[i] = name[i] + 32
            /\ name[i] \in LowerCaseLetters \cup Digits => part[i] = name[i]
            /\ name[i] \notin LowerCaseLetters \cup UpperCaseLetters \cup Digits
                 => part[i] = Underscore
       /\ applied.filename[n + 1] = Underscore
       /\ \A i \in 1..t :
            /\ timestamp[i] # Colon
            /\ timestamp[i] = IF applied.isoString[i] = Colon THEN Hyphen
                              ELSE applied.isoString[i]
       /\ SubSeq(applied.filename, n + t + 2, n + t + 5) = PngSuffix

\* The name "Z!" gave a filename starting with "z__".
C20_Witness ==
  /\ applied.step = "named"
  /\ applied.name = <<90, 33>>
  /\ SubSeq(applied.filename, 1, 3) = <<122, 95, 95>>


\* ------------------------------------------------------------------ C21
\* C21 as stated: a successful observe call returns exactly one text, the
\* serialised observations, without the operation log, and the successful
\* results of the other tools do carry the operation log.
C21_ObserveAloneOmitsLog ==
  \A p \in Handlers :
    (pc[p] = "handled" /\ ~result[p].isError) =>
      IF req[p].name = "stagehand_observe" THEN
        result[p].content =
          <<Text("Observations: ", <<Stringify(call[p].observations)>>)>>
      ELSE AttachedLogs(result[p]) # {}

\* C21, amended: a successful observe call returns exactly one text, the
\* serialised observations, without the operation log; so do navigate and act
\* (one text) and screenshot (two texts: path and file URL).  Of the
\* successful results only extract's carries the operation log.
C21_OnlyExtractAttachesLogOnSuccess ==
  \A p \in Handlers :
    (pc[p] = "handled" /\ ~result[p].isError) =>
      /\ req[p].name = "stagehand_observe" =>
           result[p].content =
             <<Text("Observations: ", <<Stringify(call[p].observations)>>)>>
      /\ req[p].name \in {"stagehand_navigate", "stagehand_act"} =>
           Len(result[p].content) = 1
      /\ req[p].name = "stagehand_screenshot" =>
           /\ Len(result[p].content) = 2
           /\ result[p].content[1].head = "Screenshot saved to: "
           /\ result[p].content[2].head = "File URL: "
      /\ AttachedLogs(result[p]) # {} <=> req[p].name = "stagehand_extract"

\* An observation of one element has been returned as its JSON alone.
C21_Witness ==
  \E p \in Handlers :
    /\ pc[p] = "handled"
    /\ req[p].name = "stagehand_observe"
    /\ ~result[p].isError
    /\ result[p].content =
         <<Text("Observations: ", <<"[{\"selector\":\"#searchButton\"}]">>)>>


\* ------------------------------------------------------------------ C22
\* The entry each branch writes when it succeeds.
SuccessEntry(name, args) ==
  CASE name = "stagehand_navigate" -> "Navigation successful"
    [] name = "stagehand_act" -> "Action completed successfully"
    [] name = "stagehand_extract" -> "Data extracted successfully: "
    [] name = "stagehand_observe" -> "Observation completed successfully: "
    [] OTHER -> IF Falsy(args.selector) THEN "Screenshot saved to: "
                ELSE "Element screenshot saved to: "

\* The entry each branch of the switch writes when it fails.
FailureEntry(name) ==
  CASE name = "stagehand_navigate" -> "Navigation failed: "
    [] name = "stagehand_act" -> "Action failed: "
    [] name = "stagehand_extract" -> "Extraction failed: "
    [] name = "stagehand_observe" -> "Observation failed: "
    [] name = "stagehand_screenshot" -> "Screenshot failed: "
    [] OTHER -> "Unknown tool called: "

\* C22: when handleToolCall returns, the last entry of the log was written
\* by this call and describes the outcome: the success entry of the tool when
\* the result is a success, the failure entry of the tool (or of the unknown
\* tool branch) when the switch failed, the initialisation failure entry when
\* no session was obtained.
C22_OutcomeLoggedBeforeReturn ==
  \A p \in Handlers :
    pc[p] = "handled" =>
      LET last == operationLogs[Len(operationLogs)]
      IN /\ Len(operationLogs) > call[p].stale
         /\ last = IF ~result[p].isError THEN
                     SuccessEntry(req[p].name, req[p].args)
                   ELSE IF settled[p].ok THEN FailureEntry(req[p].name)
                   ELSE "Failed to initialize Stagehand: "

\* The unknown-tool branch has returned, a session in place.
C22_Witness ==
  \E p \in Handlers :
    /\ pc[p] = "handled"
    /\ req[p].name = UnknownName
    /\ settled[p].ok
    /\ operationLogs[Len(operationLogs)] = "Unknown tool called: "


\* ------------------------------------------------------------------ C23
\* The type names convertSchema has a case for.
KnownTypes ==
  {JsString(type) : type \in {"string", "number", "integer", "boolean",
                              "null", "array", "object"}}

\* A schema node (not null or undefined) without a type convertSchema knows.
Untyped(node) ==
  node.k \notin {"undefined", "null"} /\ Get(node, "type") \notin KnownTypes

\* The object `x` with `v` under `key`.
With(x, key, v) ==
  JsObject([k2 \in DOMAIN x.f \cup {key} |-> IF k2 = key THEN v ELSE x.f[k2]])

\* C23: a schema node whose type is absent or unknown converts to a validator
\* that accepts every value.  At the top level every value passes; under a
\* property key of an object schema, putting any value (or none) under that
\* key never changes whether an object passes; as the items of an array
\* schema without length bounds, every array passes.
C23_UntypedAcceptsEverything ==
  applied.step = "validated" =>
    LET schema == applied.schema
        x == applied.value
    IN /\ Untyped(schema) => applied.success
       /\ (Get(schema, "type") = JsString("object") /\ x.k = "object") =>
            \A key \in DOMAIN Declared(schema) :
              Untyped(Declared(schema)[key]) =>
                \A v \in PropertyValues \cup {JsUndefined, JsBool(TRUE)} :
                  Accepts(applied.zodSchema, With(x, key, v)) = applied.success
       /\ (/\ Get(schema, "type") = JsString("array")
           /\ Untyped(Get(schema, "items"))
           /\ x.k = "array") => applied.success

\* A property of unknown type holds a number in an object that passed.
C23_Witness ==
  /\ applied.step = "validated"
  /\ Get(applied.schema, "type") = JsString("object")
  /\ Get(applied.schema, "properties") =
       JsObject([a |-> JsObject([type |-> JsString("date")])])
  /\ Get(applied.schema, "required") = JsArray(<<JsString("a")>>)
  /\ applied.value = JsObject([a |-> JsNumber(7)])
  /\ applied.success


\* ------------------------------------------------------------------ C24
\* The schema `schema` with "number" for its type.
AsNumber(schema) == JsObject([schema.f EXCEPT !.type = JsString("number")])

\* C24: the validator converted from an integer schema accepts a value
\* exactly when the value is an integral number that the validator converted
\* from the number schema with the same minimum and maximum accepts; so it
\* rejects every non-integral number, those the number validator accepts too.
C24_IntegerIsIntegralNumber ==
  (applied.step = "validated"
     /\ Get(applied.schema, "type") = JsString("integer")) =>
    (applied.success <=>
       /\ applied.value.k = "number"
       /\ "half" \notin DOMAIN applied.value
       /\ Accepts(jsonSchemaToZod(AsNumber(applied.schema)), applied.value))

\* 7.5 lies within [7, 8]: the number validator accepts it, the integer
\* validator has rejected it.
C24_Witness ==
  /\ applied.step = "validated"
  /\ applied.schema = JsObject([type |-> JsString("integer"),
                                minimum |-> JsNumber(7), maximum |-> JsNumber(8)])
  /\ applied.value = JsHalf(7)
  /\ ~applied.success
  /\ Accepts(jsonSchemaToZod(AsNumber(applied.schema)), applied.value)


\* ------------------------------------------------------------------ C25
\* C25: handleToolCall asks ensureStagehand to force reinitialisation exactly
\* when the tool is navigate.  So page.goto is only ever called on the
\* instance constructed and initialised in the same call, which is in the
\* slot and on which nothing had been invoked before; and a call of another
\* tool whose probe passed constructs and closes nothing.
C25_OnlyNavigateForces ==
  /\ [](\A p \in Handlers :
          pc[p] # "idle" =>
            /\ call[p].force <=> req[p].name = "stagehand_navigate"
            /\ call[p].ops # <<>> /\ call[p].ops[1] = "goto" =>
                 /\ req[p].name = "stagehand_navigate"
                 /\ call[p].ctors = 1
                 /\ call[p].init = "ok"
                 /\ call[p].built = stagehand
                 /\ call[p].probed = Undefined
                 /\ sess[stagehand].init = "ok"
            /\ (req[p].name # "stagehand_navigate"
                  /\ call[p].probed # Undefined) =>
                 /\ call[p].ctors = 0
                 /\ call[p].closedOn = Undefined)
  /\ [][\A p \in Handlers :
          (call[p].ops = <<>> /\ call'[p].ops = <<"goto">>) =>
            /\ pending'[p] = call[p].built
            /\ ~sess[call[p].built].used]_vars

\* A navigate call replaced the session that was in the slot and is waiting
\* for page.goto on the new one.
C25_Witness ==
  \E p \in Handlers :
    /\ pc[p] = "op"
    /\ call[p].ops = <<"goto">>
    /\ call[p].slot0 # Undefined
    /\ call[p].built = stagehand
    /\ call[p].built # call[p].slot0


\* ------------------------------------------------------------------ C26
\* C26: a session is closed before it is replaced.  A call that reaches the
\* constructor while the slot held an instance has called close() on that
\* instance and seen it settle (closed, rejected or thrown) first, and the
\* slot was emptied before the constructor ran, so a throwing constructor
\* leaves it empty; and the slot never changes from an instance to anything
\* else without close() having been called on that instance.
C26_ClosedBeforeReplaced ==
  /\ [](\A p \in Handlers :
          (pc[p] # "idle" /\ call[p].slot0 # Undefined) =>
            /\ call[p].ctors > 0 =>
                 /\ call[p].closedOn = call[p].slot0
                 /\ sess[call[p].slot0].closeCalled
                 /\ \/ sess[call[p].slot0].closed
                    \/ call[p].closeFailed \in {"reject", "throw"}
                 /\ stagehand # call[p].slot0
            /\ call[p].threw = "constructor" => stagehand = Undefined
            /\ pc[p] = "close" =>
                 /\ call[p].ctors = 0
                 /\ stagehand = call[p].slot0)
  /\ [][(stagehand # Undefined /\ stagehand' # stagehand) =>
          /\ sess'[stagehand].closeCalled
          /\ \E p \in Handlers :
               /\ call'[p].closedOn = stagehand
               /\ pc[p] = "close" \/ call'[p].closeFailed = "throw"]_vars

\* A call replaced the instance in the slot after close() on it rejected.
C26_Witness ==
  \E p \in Handlers :
    /\ call[p].slot0 # Undefined
    /\ call[p].closedOn = call[p].slot0
    /\ call[p].closeFailed = "reject"
    /\ call[p].built # Undefined
    /\ stagehand = call[p].built
    /\ ~sess[call[p].slot0].closed


\* ------------------------------------------------------------------ C27
\* C27: with forced reinitialisation no liveness probe is made on the
\* existing instance: page.evaluate is neither pending nor answered and the
\* page handle is not tested; the call goes to close() on the instance in the
\* slot and then to the constructor.  With an empty slot the call goes to the
\* constructor with neither probe nor close.
C27_ForcedSkipsProbe ==
  \A p \in Handlers :
    pc[p] # "idle" =>
      /\ call[p].force =>
           /\ pc[p] # "probe"
           /\ call[p].probed = Undefined
           /\ call[p].probeFailed = ""
           /\ call[p].slot0 # Undefined =>
                /\ call[p].closedOn = call[p].slot0
                /\ pc[p] # "close" => call[p].ctors = 1
           /\ ~InLog("Testing if browser session is still active...")
      /\ call[p].slot0 = Undefined =>
           /\ pc[p] \notin {"probe", "close"}
           /\ call[p].probed = Undefined
           /\ call[p].probeFailed = ""
           /\ call[p].closedOn = Undefined
           /\ call[p].ctors = 1
           /\ ~InLog("Closing previous Stagehand instance...")

\* A forced call waits for close() on an instance whose init() had succeeded.
C27_Witness ==
  \E p \in Handlers :
    /\ pc[p] = "close"
    /\ call[p].force
    /\ call[p].slot0 # Undefined
    /\ sess[call[p].slot0].init = "ok"
    /\ call[p].probed = Undefined


\* ------------------------------------------------------------------ C28
\* C28: a failure of the requested operation, or an unknown tool name,
\* leaves the session slot alone.  When handleToolCall returns an error after
\* ensureStagehand resolved, the slot holds the instance ensureStagehand
\* gave and close() has not been called on it; the instance stays in the slot
\* until a later call closes it; and a later call of a tool other than
\* navigate whose probe of it passes builds and closes nothing and issues its
\* operation on that same instance.
C28_FailureKeepsSession ==
  /\ [](\A p \in Handlers :
          /\ (pc[p] = "handled" /\ settled[p].ok /\ result[p].isError) =>
               /\ stagehand # Undefined
               /\ stagehand = settled[p].val
               /\ sess[stagehand].failed
               /\ ~sess[stagehand].closeCalled
               /\ call[p].closedOn # stagehand
          /\ (/\ pc[p] # "idle"
              /\ req[p].name # "stagehand_navigate"
              /\ call[p].slot0 # Undefined
              /\ sess[call[p].slot0].failed
              /\ call[p].probed # Undefined) =>
               /\ call[p].probed = call[p].slot0
               /\ stagehand = call[p].slot0
               /\ call[p].ctors = 0
               /\ call[p].closedOn = Undefined
               /\ ~sess[stagehand].closeCalled
               /\ Awaiting(p) => pending[p] = call[p].slot0)
  /\ [][\A s \in Sessions :
          (stagehand = s /\ sess[s].failed /\ stagehand' # s) =>
            sess'[s].closeCalled]_vars

\* After a failure on an instance, a later call of another tool than
\* navigate probed that instance, found it live and waits for its operation
\* on it.
C28_Witness ==
  \E p \in Handlers :
    /\ pc[p] = "op"
    /\ req[p].name # "stagehand_navigate"
    /\ call[p].slot0 # Undefined
    /\ sess[call[p].slot0].failed
    /\ call[p].probed = call[p].slot0
    /\ pending[p] = call[p].slot0
    /\ call[p].ctors = 0


\* ------------------------------------------------------------------ C29
\* The executions that took a step: every step moves its handler.
Stepping == {p \in Handlers : pc'[p] # pc[p]}

\* The instances on which a capability is being called in this step.
IssuedOn(p) ==
  IF Len(call'[p].ops) > Len(call[p].ops) THEN {pending'[p]} ELSE {}

\* C29 as stated: with two requests in flight and interleaving at the awaits
\* of ensureStagehand, once both are answered every constructed instance is
\* in the slot or has had close() called on it, the slot never passes from an
\* instance to something else without close() having been called on that
\* instance, and no capability is called on an instance after close() was
\* called on it.
C29_SlotSafeUnderOverlap ==
  /\ [](InFlight = {} =>
          \A s \in Sessions :
            sess[s].init # "unborn" => (stagehand = s \/ sess[s].closeCalled))
  /\ [][\A s \in Sessions :
          (stagehand = s /\ stagehand' # s) => sess'[s].closeCalled]_vars
  /\ [][\A p \in Handlers : \A s \in IssuedOn(p) :
          ~sess[s].closeCalled]_vars


\* C29, amended: overlapping executions do not keep the slot safe (each part
\* of the statement above fails).  What each of two executions still does
\* by itself: it reaches the constructor only after the close() it called on the
\* instance it found in the slot has settled, and it never takes out of the
\* slot, un-closed, the instance that was there when its request arrived: an
\* instance that leaves the slot without close() having been called on it
\* was constructed after the request of the displacing execution arrived.
C29_UnclosedDisplacementOnlyByRace ==
  /\ [](\A p \in Handlers :
          pc[p] # "idle" =>
            /\ pc[p] = "close" => call[p].ctors = 0
            /\ (call[p].ctors > 0 /\ call[p].closedOn # Undefined) =>
                 /\ sess[call[p].closedOn].closeCalled
                 /\ \/ sess[call[p].closedOn].closed
                    \/ call[p].closeFailed \in {"reject", "throw"})
  /\ [][\A s \in Sessions : \A p \in Stepping :
          (/\ delivered <= 2
           /\ stagehand = s /\ stagehand' # s /\ ~sess'[s].closeCalled) =>
            /\ pc[p] # "idle"
            /\ s > call[p].slot0]_vars

\* Two executions are in flight, and an initialised instance on which
\* close() was never called has been replaced in the slot by another one.
C29_Witness ==
  /\ Cardinality(InFlight) = 2
  /\ \E s \in Sessions :
       /\ sess[s].init = "ok"
       /\ ~sess[s].closeCalled
       /\ stagehand # Undefined
       /\ stagehand # s
       /\ \E p \in Handlers : call[p].built = stagehand


\* ------------------------------------------------------------------ C30
\* The tool's operation was carried out to its end in this execution: the
\* last call made is a capability (not the element lookup), nothing that was
\* awaited rejected, and for extract the schema was converted and what came
\* back has the expected shape.
Completed(p) ==
  /\ call[p].ops # <<>>
  /\ call[p].ops[Len(call[p].ops)] \in Capabilities
  /\ call[p].threw = ""
  /\ req[p].name = "stagehand_extract" =>
       /\ jsonSchemaToZod(req[p].args.schema).z # "throw"
       /\ call[p].data # NoData
       /\ extractedDataError(call[p].data) = ""
  /\ req[p].name = "stagehand_screenshot" =>
       (~Falsy(req[p].args.selector) => call[p].element = "element")

\* C30: when handleToolCall returns, isError is false exactly when
\* ensureStagehand resolved, the name is one of the five tools and the
\* tool's operation completed without failure (for extract with the schema
\* conversion and the shape check, for screenshot with the element lookup);
\* otherwise it is true.  Every result has at least one item and every item
\* is of type text.
C30_ErrorFlagAndTextItems ==
  \A p \in Handlers :
    pc[p] = "handled" =>
      /\ result[p].isError \in BOOLEAN
      /\ ~result[p].isError <=>
           /\ settled[p].ok
           /\ req[p].name \in ToolNames
           /\ Completed(p)
      /\ Len(result[p].content) >= 1
      /\ \A i \in DOMAIN result[p].content : result[p].content[i].type = "text"

\* A screenshot of an element returns without error after the lookup found
\* the element and the capture was taken.
C30_Witness ==
  \E p \in Handlers :
    /\ pc[p] = "handled"
    /\ req[p].name = "stagehand_screenshot"
    /\ call[p].ops = <<"$", "element.screenshot">>
    /\ ~result[p].isError
    /\ Len(result[p].content) = 2


\* ------------------------------------------------------------------ C31
\* The first entry each branch of the switch writes.
BranchEntry(name) ==
  CASE name = "stagehand_navigate" -> "Navigating to URL: "
    [] name = "stagehand_act" -> "Performing action: "
    [] name = "stagehand_extract" -> "Extracting data with instruction: "
    [] name = "stagehand_observe" -> "Starting observation with instruction: "
    [] name = "stagehand_screenshot" -> "Taking screenshot with name: "
    [] OTHER -> "Unknown tool called: "

BranchEntries == {BranchEntry(name) : name \in Names}

\* The calls each branch may make.
BranchCalls(name) ==
  CASE name = "stagehand_navigate" -> {"goto"}
    [] name = "stagehand_act" -> {"act"}
    [] name = "stagehand_extract" -> {"extract"}
    [] name = "stagehand_observe" -> {"observe"}
    [] name = "stagehand_screenshot" ->
         {"$", "element.screenshot", "page.screenshot(fullPage)",
          "page.screenshot(viewport)"}
    [] OTHER -> {}

\* The executions that have entered the switch.
InSwitch == {p \in Handlers : pc[p] \in {"op", "query", "elshot", "handled"}
                               /\ settled[p].ok}

\* C31: the tool list and the dispatcher agree.  TOOLS holds five
\* definitions with pairwise distinct names, and every ListTools response
\* carries that same list; a call with one of those names enters the branch
\* of that tool and no other (the five branches are distinct), and a call
\* with any other name enters the unknown-tool branch, once ensureStagehand
\* has resolved.
C31_ToolListMatchesDispatch ==
  /\ Len(TOOLS) = 5
  /\ \A i, j \in DOMAIN TOOLS : TOOLS[i] = TOOLS[j] => i = j
  /\ listed \in {<<>>, TOOLS}
  /\ \A m, n \in ToolNames : BranchEntry(m) = BranchEntry(n) => m = n
  /\ \A n \in ToolNames : BranchEntry(n) # "Unknown tool called: "
  /\ \A p \in InSwitch :
       /\ InLog(BranchEntry(req[p].name))
       /\ \A entry \in BranchEntries \ {BranchEntry(req[p].name)} : ~InLog(entry)
       /\ \A i \in DOMAIN call[p].ops : call[p].ops[i] \in BranchCalls(req[p].name)
       /\ req[p].name \in ToolNames <=> ~InLog("Unknown tool called: ")
       /\ req[p].name \notin ToolNames =>
            /\ pc[p] = "handled"
            /\ result[p].isError
            /\ result[p].content[1].head = "Unknown tool: "

\* After the tool list was advertised, a call whose name differs from a
\* tool name only by case ended in the unknown-tool branch.
C31_Witness ==
  \E p \in Handlers :
    /\ listed = TOOLS
    /\ pc[p] = "handled"
    /\ settled[p].ok
    /\ req[p].name = "STAGEHAND_NAVIGATE"
    /\ InLog("Unknown tool called: ")


\* ------------------------------------------------------------------ C32
\* The log `before` is the beginning of the log `after`.
IsPrefix(before, after) ==
  /\ Len(before) <= Len(after)
  /\ \A i \in DOMAIN before : after[i] = before[i]

\* C32: when every awaited capability call settles, every tool-call request
\* is answered, with exactly one result: handleToolCall's result is there
\* exactly when it has returned, it is not replaced afterwards, and the
\* handler ends only by returning it.  From the handler's clearing of the log
\* to its response every step leaves the entries of the log in place and
\* only appends to them, the building of the error payload included.
C32_AnsweredOnceLogOnlyGrows ==
  /\ \A p \in Handlers : (pc[p] # "idle") ~> (pc[p] = "idle")
  /\ [](\A p \in Handlers :
          /\ result[p] # NoResult <=> pc[p] = "handled"
          /\ pc[p] = "handled" => result[p].content # <<>>)
  /\ [][\A p \in Handlers :
          /\ result[p] # NoResult =>
               \/ result'[p] = result[p]
               \/ pc'[p] = "idle"
          /\ (pc[p] # "idle" /\ pc'[p] = "idle") => pc[p] = "handled"
          /\ pc[p] # "idle" => IsPrefix(operationLogs, operationLogs')]_vars

\* handleToolCall has returned an error whose payload is the whole log, and
\* the log still holds every entry of it.
C32_Witness ==
  \E p \in Handlers :
    /\ pc[p] = "handled"
    /\ result[p].isError
    /\ call[p].ops # <<>>
    /\ result[p].content[2] = LogsText(operationLogs)
    /\ Len(operationLogs) > 3

====
